---- MODULE Spec2Model ----
(***************************************************************************)
(* Model of the RabbitMQ client layer of NodeJS-RabbitMQ:                  *)
(*   - RabbitMQConnection (src/src/rabbitmq/connection.js, lines 11-161):  *)
(*     connect(), handleConnectionError(), createChannel(), close() and    *)
(*     the event handlers they register, run by request-path callers and   *)
(*     by the reconnect timers, interleaved at every await;                *)
(*   - Consumer.consume() (same file, lines 216-279): the delivery         *)
(*     callback and its ack / reject policy;                               *)
(*   - Publisher.publish() (src/src/rabbitmq/publisher.js, lines 47-79);   *)
(*   - Publisher.initialize() (lines 24-38) and Consumer.initialize(),     *)
(*     consume(), cancel() and close() (connection.js, lines 188-310);     *)
(*   - the Message envelope (src/src/models/message.js);                   *)
(*   - the handlers shipped with the repository, as far as the delivery    *)
(*     callback sees them (src/src/consumer.js lines 56-79,                *)
(*     src/src/services/notification_service.js lines 60-81).              *)
(* Node.js runs one callback at a time, so every action below is the code  *)
(* executed between two awaits.  null is modelled as 0.                    *)
(***************************************************************************)
EXTENDS Integers, Sequences, FiniteSets, TLC

(***************************************************************************)
(* Bounds and configuration                                                *)
(***************************************************************************)
\* config.connection.reconnectAttempts (env RABBITMQ_RECONNECT_ATTEMPTS)
reconnectAttempts == 2
\* request-path callers of the manager that may run concurrently
NumCallers == 2
\* total number of connect()/createChannel()/close() calls the callers issue
MaxCalls == 2
\* total number of 'error'/'close' events the broker side raises
MaxEvents == 2

\* the callers and the two budgets in the specification with fairness (LiveSpec)
LiveCallers == 1
LiveCalls == 2
LiveEvents == 1
\* messages the broker delivers to the subscription
MaxMsgs == 2
\* null deliveries (consumer cancelled by the broker)
MaxNulls == 1
\* publish() calls issued on the publisher
MaxPublishes == 2
\* constructions, validations and conversions of Message envelopes
MaxMessageOps == 3
\* initialize(), consume(), cancel() and close() calls made on the clients
MaxClientCalls == 3
\* broker events raised while the clients are in use
ClientEvents == 1

Callers == 1..NumCallers
\* delivery 0 is the null delivery
Deliveries == 0..MaxMsgs
\* message bodies: a JSON object, a JSON string, plain text, malformed JSON
Contents == {"{\"id\":\"123\"}", "\"hi\"", "plain text message", "{ invalid json"}

VARIABLES
  connection,         \* this.connection: 0 or the id of a connection
  channel,            \* this.channel: 0 or the id of a channel
  connectionRetries,  \* this.connectionRetries
  isConnecting,       \* this.isConnecting
  timers,             \* pending setTimeout callbacks of handleConnectionError
  tWaiting,           \* timer-made connect() calls polling in the wait branch
  tAttempting,        \* timer-made connect() calls awaiting amqp.connect
  conns,              \* conns[k]: transport state of connection k
  chans,              \* chans[i]: [conn, st] of channel i
  pc,                 \* pc[c]: where caller c is suspended
  op,                 \* op[c]: the call caller c is running / ran last
  local,              \* local[c]: `connection` local of createChannel(); for close(),
                      \* the channel / connection whose close is awaited
  target,             \* target[c]: the live channel and connection close() was called with
  calls,              \* calls issued so far
  events,             \* broker events raised so far
  budget,             \* [calls, events]: how many of each the environment issues
  brokerStable,       \* the broker accepts every attempt from now on
  consumeOptions,     \* options of the registered subscription, empty before consume()
  consumerTag,        \* this.consumerTag
  subOpen,            \* the channel captured by the delivery callback is open
  dl,                 \* dl[m]: what the delivery callback did for delivery m
  pub,                \* the publish() call in progress and what it did on the channel
  msg,                \* the Message envelope under construction, validation, conversion
  cli,                \* the Publisher / Consumer call in progress, the last one
                      \* completed, and the broker's subscriptions
  fails,              \* failed attempts in a row since retries were 0 (-1: an event fault intervened)
  sched,              \* reconnect timers scheduled during that run
  lastStep            \* the step taken last: its name, connection/channel before it,
                      \* and, when it completed a call, the call and its outcome

mgr   == <<connection, channel, connectionRetries, isConnecting>>
tmr   == <<timers, tWaiting, tAttempting>>
net   == <<conns, chans, events, brokerStable, budget>>
clr   == <<pc, op, local, target, calls>>
ghost == <<fails, sched>>
cons  == <<consumeOptions, consumerTag, subOpen, dl>>
pubv  == <<pub>>
appv  == <<msg, cli>>
mgrAll == <<mgr, tmr, net, clr, ghost>>
vars  == <<mgr, tmr, net, clr, ghost, cons, pubv, appv, lastStep>>

NoTarget == [ch |-> 0, conn |-> 0]

\* the component a caller belongs to; Publisher and Consumer both import the
\* one manager exported by connection.js, whose state is the manager variables
Component(c) == IF c = 1 THEN "Publisher" ELSE "Consumer"

\* a step of a client call: the operation and, for cancel, the tag passed
Did(o, a) == [op |-> o, arg |-> a]
\* a client call: who runs what, the await it is suspended at, its channel,
\* the tag held when it began, whether it repeats a completed initialize()
\* on the channel still held, and the requests it has made so far
NoCall == [who |-> "none", op |-> "none", stage |-> "none", ch |-> 0,
           tag0 |-> 0, again |-> FALSE, trace |-> <<>>]

\* a step that completes no call
Step(a) == [act |-> a, conn |-> connection, chan |-> channel,
            retries |-> connectionRetries,
            call |-> "none", res |-> "none", val |-> 0,
            who |-> 0, tch |-> 0, tconn |-> 0, cl |-> NoCall]
\* a step that completes call o with outcome r and value v
Done(a, o, r, v) == [act |-> a, conn |-> connection, chan |-> channel,
                     retries |-> connectionRetries,
                     call |-> o, res |-> r, val |-> v,
                     who |-> 0, tch |-> 0, tconn |-> 0, cl |-> NoCall]
\* a step that completes the client call cl with outcome r
ClientDone(a, call, r) ==
  [act |-> a, conn |-> connection, chan |-> channel,
   retries |-> connectionRetries,
   call |-> "client", res |-> r, val |-> consumerTag,
   who |-> 0, tch |-> 0, tconn |-> 0, cl |-> call]
\* a step that completes caller c's close() with outcome r
DoneClose(a, r, c) == [act |-> a, conn |-> connection, chan |-> channel,
                       retries |-> connectionRetries,
                       call |-> "close", res |-> r, val |-> 0,
                       who |-> c, tch |-> target[c].ch, tconn |-> target[c].conn,
                       cl |-> NoCall]

(***************************************************************************)
(* RabbitMQConnection                                                      *)
(***************************************************************************)
\* connect() without the isConnecting guard of lines 29-40
\* connect() waiting for the reconnect timer instead of attempting itself
ConnectEntry_NeverAttempts ==
  IF connection # 0 THEN "have" ELSE "wait"

ConnectEntry_NoGuard ==
  IF connection # 0 THEN "have" ELSE "attempt"

\* connect(), lines 25-42: which branch a call takes on entry
ConnectEntry ==
  IF connection # 0 THEN "have"
  ELSE IF isConnecting THEN "wait"
  ELSE "attempt"

\* handleConnectionError() comparing with <= instead of <
HandleConnectionError_OffByOne ==
  /\ connection' = 0
  /\ channel' = 0
  /\ IF connectionRetries <= reconnectAttempts
       THEN /\ connectionRetries' = connectionRetries + 1
            /\ timers' = timers + 1
       ELSE UNCHANGED <<connectionRetries, timers>>

\* handleConnectionError() forgetting to null the channel
HandleConnectionError_KeepsChannel ==
  /\ connection' = 0
  /\ UNCHANGED channel
  /\ IF connectionRetries < reconnectAttempts
       THEN /\ connectionRetries' = connectionRetries + 1
            /\ timers' = timers + 1
       ELSE UNCHANGED <<connectionRetries, timers>>

\* handleConnectionError(), lines 77-99
HandleConnectionError ==
  /\ connection' = 0
  /\ channel' = 0
  /\ IF connectionRetries < reconnectAttempts
       THEN /\ connectionRetries' = connectionRetries + 1
            /\ timers' = timers + 1
       ELSE UNCHANGED <<connectionRetries, timers>>

\* a successful connect that forgets to reset the retry counter
Established_NoReset ==
  /\ conns' = Append(conns, "open")
  /\ connection' = Len(conns) + 1
  /\ UNCHANGED connectionRetries
  /\ isConnecting' = FALSE

\* amqp.connect resolved: lines 49-52 and the finally at line 70
Established ==
  /\ conns' = Append(conns, "open")
  /\ connection' = Len(conns) + 1
  /\ connectionRetries' = 0
  /\ isConnecting' = FALSE

\* bookkeeping of a run of failed attempts (history only)
NoteFailedAttempt ==
  /\ fails' = IF fails < 0 THEN fails
              ELSE IF fails > reconnectAttempts THEN fails ELSE fails + 1
  /\ sched' = IF fails < 0 THEN sched ELSE sched + (timers' - timers)
NoteEventFault == fails' = -1 /\ sched' = 0
NoteSuccess    == fails' = 0 /\ sched' = 0

ConnIsOpen(k) == k # 0 /\ conns[k] = "open"
ChanIsOpen(i) == chans[i].st = "open" /\ ConnIsOpen(chans[i].conn)
OpenChannels  == {i \in 1..Len(chans) : ChanIsOpen(i)}

\* caller c's call settles (resolves or rejects)
Finish(c) ==
  /\ pc' = [pc EXCEPT ![c] = "idle"]
  /\ op' = [op EXCEPT ![c] = "none"]
  /\ local' = [local EXCEPT ![c] = 0]
  /\ target' = [target EXCEPT ![c] = NoTarget]

\* caller c's call is suspended at the await named `where`
Suspend(c, o, where, conn) ==
  /\ pc' = [pc EXCEPT ![c] = where]
  /\ op' = [op EXCEPT ![c] = o]
  /\ local' = [local EXCEPT ![c] = conn]
  /\ UNCHANGED target

\* a caller calls connect(): lines 24-42
CallConnect(c) ==
  /\ pc[c] = "idle" /\ c <= budget.callers /\ calls < budget.calls
  /\ calls' = calls + 1
  /\ CASE ConnectEntry = "have" ->
            /\ Finish(c)
            /\ lastStep' = Done("CallConnect", "connect", "ok", connection)
            /\ UNCHANGED isConnecting
       [] ConnectEntry = "wait" ->
            /\ Suspend(c, "connect", "waiting", 0)
            /\ lastStep' = Step("CallConnect")
            /\ UNCHANGED isConnecting
       [] OTHER ->
            /\ isConnecting' = TRUE
            /\ Suspend(c, "connect", "attempting", 0)
            /\ lastStep' = Step("CallConnect")
  /\ UNCHANGED <<cons, pubv, appv>>
  /\ UNCHANGED <<connection, channel, connectionRetries, tmr, net, ghost>>

\* a caller calls createChannel(): lines 105-112 and the entry of connect()
CallCreateChannel(c) ==
  /\ pc[c] = "idle" /\ c <= budget.callers /\ calls < budget.calls
  /\ calls' = calls + 1
  /\ IF channel # 0
       THEN /\ Finish(c)
            /\ lastStep' = Done("CallCreateChannel", "createChannel", "ok", channel)
            /\ UNCHANGED isConnecting
       ELSE /\ lastStep' = Step("CallCreateChannel")
            /\ CASE ConnectEntry = "have" ->
                      /\ Suspend(c, "createChannel", "creating", connection)
                      /\ UNCHANGED isConnecting
                 [] ConnectEntry = "wait" ->
                      /\ Suspend(c, "createChannel", "waiting", 0)
                      /\ UNCHANGED isConnecting
                 [] OTHER ->
                      /\ isConnecting' = TRUE
                      /\ Suspend(c, "createChannel", "attempting", 0)
  /\ UNCHANGED <<cons, pubv, appv>>
  /\ UNCHANGED <<connection, channel, connectionRetries, tmr, net, ghost>>

\* the 100 ms poll of the wait branch sees isConnecting false: lines 31-39;
\* for createChannel() the continuation at lines 111-112 and 127-130 follows
Poll(c) ==
  /\ pc[c] = "waiting" /\ ~isConnecting
  /\ IF op[c] = "connect"
       THEN /\ Finish(c)
            /\ lastStep' = Done("Poll", "connect", "ok", connection)
            /\ UNCHANGED channel
       ELSE IF connection = 0
         THEN /\ channel' = 0
              /\ Finish(c)
              /\ lastStep' = Done("Poll", "createChannel", "TypeError", 0)
         ELSE /\ Suspend(c, "createChannel", "creating", connection)
              /\ lastStep' = Step("Poll")
              /\ UNCHANGED channel
  /\ UNCHANGED <<cons, pubv, appv>>
  /\ UNCHANGED <<connection, connectionRetries, isConnecting, tmr, net, calls, ghost>>

\* amqp.connect resolves: lines 49-64 and 70
AttemptSucceed(c) ==
  /\ pc[c] = "attempting"
  /\ Established
  /\ NoteSuccess
  /\ IF op[c] = "connect"
       THEN /\ Finish(c)
            /\ lastStep' = Done("AttemptSucceed", "connect", "ok", Len(conns) + 1)
       ELSE /\ Suspend(c, "createChannel", "creating", Len(conns) + 1)
            /\ lastStep' = Step("AttemptSucceed")
  /\ UNCHANGED <<cons, pubv, appv>>
  /\ UNCHANGED <<channel, tmr, chans, events, brokerStable, budget, calls>>

\* amqp.connect rejects: lines 65-71, and the catch of createChannel()
AttemptFail(c) ==
  /\ pc[c] = "attempting" /\ ~brokerStable
  /\ HandleConnectionError
  /\ NoteFailedAttempt
  /\ isConnecting' = FALSE
  /\ Finish(c)
  /\ lastStep' = Done("AttemptFail", op[c], "ConnectError", 0)
  /\ UNCHANGED <<cons, pubv, appv>>
  /\ UNCHANGED <<tWaiting, tAttempting, net, calls>>

\* connection.createChannel() settles: lines 112-131
CreateChannelDone(c) ==
  /\ pc[c] = "creating"
  /\ Finish(c)
  /\ IF ConnIsOpen(local[c])
       THEN /\ chans' = Append(chans, [conn |-> local[c], st |-> "open"])
            /\ channel' = Len(chans) + 1
            /\ lastStep' = Done("CreateChannelDone", "createChannel", "ok", Len(chans) + 1)
       ELSE /\ channel' = 0
            /\ lastStep' = Done("CreateChannelDone", "createChannel", "ChannelError", 0)
            /\ UNCHANGED chans
  /\ UNCHANGED <<cons, pubv, appv>>
  /\ UNCHANGED <<connection, connectionRetries, isConnecting, tmr, conns, events,
                 brokerStable, budget, calls, ghost>>

\* a catch block that forgets the connection
CloseCatch_KeepsConnection ==
  /\ channel' = 0
  /\ UNCHANGED connection

\* the catch block of close(), lines 152-156
CloseCatch ==
  /\ connection' = 0
  /\ channel' = 0

\* close(), lines 145-151 and the catch, entered with this.channel null:
\* connection.close() throws on a connection that is not open
CloseConnectionPart(c, a) ==
  /\ channel' = 0
  /\ IF connection = 0
       THEN /\ Finish(c)
            /\ lastStep' = DoneClose(a, "ok", c)
            /\ UNCHANGED <<connection, conns>>
       ELSE IF conns[connection] = "open"
         THEN /\ conns' = [conns EXCEPT ![connection] = "closing"]
              /\ pc' = [pc EXCEPT ![c] = "closingConn"]
              /\ op' = [op EXCEPT ![c] = "close"]
              /\ local' = [local EXCEPT ![c] = connection]
              /\ lastStep' = Step(a)
              /\ UNCHANGED <<connection, target>>
         ELSE /\ CloseCatch
              /\ Finish(c)
              /\ lastStep' = DoneClose(a, "caught", c)
              /\ UNCHANGED conns

\* a caller calls close(): lines 137-149; channel.close() throws on a
\* channel that is not open
CallClose(c) ==
  /\ pc[c] = "idle" /\ c <= budget.callers /\ calls < budget.calls
  /\ calls' = calls + 1
  /\ IF channel # 0
       THEN IF ChanIsOpen(channel)
              THEN /\ chans' = [chans EXCEPT ![channel].st = "closing"]
                   /\ pc' = [pc EXCEPT ![c] = "closingChannel"]
                   /\ op' = [op EXCEPT ![c] = "close"]
                   /\ local' = [local EXCEPT ![c] = channel]
                   /\ target' = [target EXCEPT ![c] =
                        IF connection # 0 /\ ConnIsOpen(connection)
                          THEN [ch |-> channel, conn |-> connection] ELSE NoTarget]
                   /\ lastStep' = Step("CallClose")
                   /\ UNCHANGED <<connection, channel, conns>>
              ELSE /\ CloseCatch
                   /\ Finish(c)
                   /\ lastStep' = DoneClose("CallClose", "caught", c)
                   /\ UNCHANGED <<conns, chans>>
       ELSE /\ CloseConnectionPart(c, "CallClose")
            /\ UNCHANGED chans
  /\ UNCHANGED <<cons, pubv, appv>>
  /\ UNCHANGED <<connectionRetries, isConnecting, tmr, events, brokerStable, budget, ghost>>

\* channel.close() settles: lines 141-149.  It resolves when the closing
\* handshake completes, the channel raising 'close' (lines 121-124) first;
\* it rejects when the connection was lost meanwhile
CloseChannelDone(c) ==
  /\ pc[c] = "closingChannel"
  /\ IF ConnIsOpen(chans[local[c]].conn)
       THEN /\ chans' = [chans EXCEPT ![local[c]].st = "shut"]
            /\ CloseConnectionPart(c, "CloseChannelDone")
       ELSE /\ CloseCatch
            /\ Finish(c)
            /\ lastStep' = DoneClose("CloseChannelDone", "caught", c)
            /\ UNCHANGED <<conns, chans>>
  /\ UNCHANGED <<cons, pubv, appv>>
  /\ UNCHANGED <<connectionRetries, isConnecting, tmr, events, brokerStable, budget,
                 calls, ghost>>

\* a close() that closes the connection but keeps the manager's references
CloseConnDone_NoNulling(c) ==
  /\ pc[c] = "closingConn"
  /\ conns' = [conns EXCEPT ![local[c]] = "shut"]
  /\ Finish(c)
  /\ lastStep' = DoneClose("CloseConnDone", "ok", c)
  /\ UNCHANGED <<cons, pubv, appv>>
  /\ UNCHANGED <<mgr, tmr, chans, events, brokerStable, budget, calls, ghost>>

\* connection.close() resolves: lines 147-151.  The connection raises 'close'
\* when the handshake completes, so the handler of lines 59-62 runs first
CloseConnDone(c) ==
  /\ pc[c] = "closingConn"
  /\ conns' = [conns EXCEPT ![local[c]] = "shut"]
  /\ HandleConnectionError
  /\ NoteEventFault
  /\ connection' = 0
  /\ Finish(c)
  /\ lastStep' = DoneClose("CloseConnDone", "ok", c)
  /\ UNCHANGED <<cons, pubv, appv>>
  /\ UNCHANGED <<isConnecting, tWaiting, tAttempting, chans, events, brokerStable,
                 budget, calls>>

\* a reconnect timer fires: lines 89-93 and the entry of connect()
TimerFire ==
  /\ timers > 0
  /\ timers' = timers - 1
  /\ lastStep' = Step("TimerFire")
  /\ CASE ConnectEntry = "have" -> UNCHANGED <<isConnecting, tWaiting, tAttempting>>
       [] ConnectEntry = "wait" ->
            /\ tWaiting' = tWaiting + 1
            /\ UNCHANGED <<isConnecting, tAttempting>>
       [] OTHER ->
            /\ isConnecting' = TRUE
            /\ tAttempting' = tAttempting + 1
            /\ UNCHANGED tWaiting
  /\ UNCHANGED <<cons, pubv, appv>>
  /\ UNCHANGED <<connection, channel, connectionRetries, net, clr, ghost>>

\* the poll of a timer-made connect() call: lines 31-39
TimerPoll ==
  /\ tWaiting > 0 /\ ~isConnecting
  /\ tWaiting' = tWaiting - 1
  /\ lastStep' = Step("TimerPoll")
  /\ UNCHANGED <<cons, pubv, appv>>
  /\ UNCHANGED <<mgr, timers, tAttempting, net, clr, ghost>>

\* amqp.connect resolves for a timer-made call: lines 49-64 and 70
TimerAttemptSucceed ==
  /\ tAttempting > 0
  /\ tAttempting' = tAttempting - 1
  /\ lastStep' = Step("TimerAttemptSucceed")
  /\ Established
  /\ NoteSuccess
  /\ UNCHANGED <<cons, pubv, appv>>
  /\ UNCHANGED <<channel, timers, tWaiting, chans, events, brokerStable, budget, clr>>

\* a connect() without the finally block of lines 69-71
TimerAttemptFail_NoFinally ==
  /\ tAttempting > 0 /\ ~brokerStable
  /\ tAttempting' = tAttempting - 1
  /\ lastStep' = Step("TimerAttemptFail")
  /\ HandleConnectionError
  /\ NoteFailedAttempt
  /\ UNCHANGED isConnecting
  /\ UNCHANGED <<cons, pubv, appv>>
  /\ UNCHANGED <<tWaiting, net, clr>>

\* amqp.connect rejects for a timer-made call: lines 65-71 and 90-92
TimerAttemptFail ==
  /\ tAttempting > 0 /\ ~brokerStable
  /\ tAttempting' = tAttempting - 1
  /\ lastStep' = Step("TimerAttemptFail")
  /\ HandleConnectionError
  /\ NoteFailedAttempt
  /\ isConnecting' = FALSE
  /\ UNCHANGED <<cons, pubv, appv>>
  /\ UNCHANGED <<tWaiting, net, clr>>

\* connection 'error' event: lines 54-57
ConnError(k) ==
  /\ conns[k] = "open" /\ events < budget.events
  /\ events' = events + 1
  /\ conns' = [conns EXCEPT ![k] = "errored"]
  /\ lastStep' = Step("ConnError")
  /\ HandleConnectionError
  /\ NoteEventFault
  /\ UNCHANGED <<cons, pubv, appv>>
  /\ UNCHANGED <<isConnecting, tWaiting, tAttempting, chans, brokerStable, budget, clr>>

\* connection 'close' event: lines 59-62
ConnClose(k) ==
  /\ conns[k] \in {"open", "errored"} /\ events < budget.events
  /\ events' = events + 1
  /\ conns' = [conns EXCEPT ![k] = "closed"]
  /\ lastStep' = Step("ConnClose")
  /\ HandleConnectionError
  /\ NoteEventFault
  /\ UNCHANGED <<cons, pubv, appv>>
  /\ UNCHANGED <<isConnecting, tWaiting, tAttempting, chans, brokerStable, budget, clr>>

\* channel 'error' event: lines 116-119
ChanError_Reconnects(i) ==
  /\ chans[i].st = "open" /\ events < budget.events
  /\ events' = events + 1
  /\ chans' = [chans EXCEPT ![i].st = "errored"]
  /\ HandleConnectionError
  /\ lastStep' = Step("ChanError")
  /\ UNCHANGED <<cons, pubv, appv>>
  /\ UNCHANGED <<isConnecting, tWaiting, tAttempting, conns, brokerStable, budget, clr, ghost>>

\* channel 'error' event: lines 116-119
ChanError(i) ==
  /\ chans[i].st = "open" /\ events < budget.events
  /\ events' = events + 1
  /\ chans' = [chans EXCEPT ![i].st = "errored"]
  /\ channel' = 0
  /\ lastStep' = Step("ChanError")
  /\ UNCHANGED <<cons, pubv, appv>>
  /\ UNCHANGED <<connection, connectionRetries, isConnecting, tmr, conns, brokerStable, budget, clr, ghost>>

\* channel 'close' event: lines 121-124
ChanClose(i) ==
  /\ chans[i].st \in {"open", "errored"} /\ events < budget.events
  /\ events' = events + 1
  /\ chans' = [chans EXCEPT ![i].st = "closed"]
  /\ channel' = 0
  /\ lastStep' = Step("ChanClose")
  /\ UNCHANGED <<cons, pubv, appv>>
  /\ UNCHANGED <<connection, connectionRetries, isConnecting, tmr, conns, brokerStable, budget, clr, ghost>>

\* the broker becomes reachable for good (environment)
BrokerStabilizes ==
  /\ ~brokerStable
  /\ brokerStable' = TRUE
  /\ lastStep' = Step("BrokerStabilizes")
  /\ UNCHANGED <<cons, pubv, appv>>
  /\ UNCHANGED <<mgr, tmr, conns, chans, events, budget, clr, ghost, cons>>

(***************************************************************************)
(* Consumer.consume() and its delivery callback                            *)
(***************************************************************************)
\* consumeOptions = { noAck: false, ...options }: lines 221-224
\* (options is a function from option names to values)
MergeOptions(options) ==
  [k \in {"noAck"} \cup DOMAIN options |->
     IF k \in DOMAIN options THEN options[k] ELSE FALSE]

\* no subscription registered yet
NoOptions == [k \in {} |-> FALSE]
Registered == DOMAIN consumeOptions # {}

\* the options a caller may pass to consume()
OptionChoices ==
  { NoOptions, [k \in {"noAck"} |-> FALSE], [k \in {"noAck"} |-> TRUE] }

\* JSON.parse on the message bodies of Contents; "none" when it throws
JSONParse(text) ==
  CASE text = "{\"id\":\"123\"}" -> [kind |-> "object", v |-> "id=123"]
    [] text = "\"hi\""            -> [kind |-> "string", v |-> "hi"]
    [] OTHER                      -> [kind |-> "none", v |-> ""]

\* lines 237-244: parse the body, fall back to the raw text
ParseContent(text) ==
  IF JSONParse(text).kind # "none" THEN JSONParse(text)
  ELSE [kind |-> "string", v |-> text]

\* a callback without the null guard
IsNullDelivery_Never(m) == FALSE

\* line 230: if (!msg)
IsNullDelivery(m) == m = 0

NoArg == [kind |-> "none", v |-> ""]
NewDelivery ==
  [n |-> 0, st |-> "none", content |-> "", outcome |-> "none",
   hcalls |-> 0, harg |-> NoArg, hmsg |-> -1,
   acks |-> 0, rejects |-> 0, requeue |-> {}]

\* channel.ack(msg), line 253: the record of delivery d after the call
Ack(d) == [d EXCEPT !.acks = @ + 1]

\* channel.reject(msg, true): requeueing the poisoned message
Reject_Requeues(d) == [d EXCEPT !.rejects = @ + 1, !.requeue = @ \cup {TRUE}]

\* channel.reject(msg, false), line 261: the record of delivery d after the call
Reject(d) == [d EXCEPT !.rejects = @ + 1, !.requeue = @ \cup {FALSE}]

\* a catch block that rejects without looking at noAck
CatchBlock_IgnoresNoAck(d) ==
  [[d EXCEPT !.rejects = @ + 1, !.requeue = @ \cup {FALSE}]
     EXCEPT !.st = IF subOpen THEN "done" ELSE "threw"]

\* the catch block, lines 256-264, entered for delivery record d;
\* a reject that throws makes the callback's promise reject
CatchBlock(d) ==
  IF consumeOptions.noAck THEN [d EXCEPT !.st = "done"]
  ELSE [Reject(d) EXCEPT !.st = IF subOpen THEN "done" ELSE "threw"]

\* a callback that acknowledges before it awaits the handler
Invoke_AcksFirst(d, m, text) ==
  [d EXCEPT !.n = @ + 1, !.st = "handling", !.content = text,
            !.hcalls = @ + 1, !.harg = ParseContent(text), !.hmsg = m,
            !.acks = @ + 1]

\* lines 237-249: decode the body and call the handler with the decoded
\* content and the delivery itself; the callback now awaits the handler
Invoke(d, m, text) ==
  [d EXCEPT !.n = @ + 1, !.st = "handling", !.content = text,
            !.hcalls = @ + 1, !.harg = ParseContent(text), !.hmsg = m]

\* consume(handler, options): lines 216-279, on an open channel
Consume(options) ==
  /\ ~Registered
  /\ consumeOptions' = MergeOptions(options)
  /\ consumerTag' = 1
  /\ subOpen' = TRUE
  /\ lastStep' = Step("Consume")
  /\ UNCHANGED <<dl, mgrAll, pubv, appv>>

\* the broker invokes the callback with delivery m: lines 229-249
Deliver(m, text) ==
  /\ Registered
  /\ dl[m].n < (IF m = 0 THEN MaxNulls ELSE 1)
  /\ lastStep' = Step("Deliver")
  /\ IF IsNullDelivery(m)
       THEN dl' = [dl EXCEPT ![m].n = @ + 1]
       ELSE IF m = 0
         \* msg.content of null throws inside the try block
         THEN dl' = [dl EXCEPT ![m] = CatchBlock([dl[m] EXCEPT !.n = @ + 1])]
         ELSE dl' = [dl EXCEPT ![m] = Invoke(@, m, text)]
  /\ UNCHANGED <<consumeOptions, consumerTag, subOpen, mgrAll, pubv, appv>>

\* the handler's promise resolves: lines 249-255, and 256-264 if ack throws
HandlerResolves(m) ==
  /\ dl[m].st = "handling"
  /\ lastStep' = Step("HandlerResolves")
  /\ dl' = [dl EXCEPT ![m] =
       IF consumeOptions.noAck
         THEN [@ EXCEPT !.outcome = "resolved", !.st = "done"]
       ELSE IF subOpen
         THEN [Ack(@) EXCEPT !.outcome = "resolved", !.st = "done"]
       ELSE CatchBlock([Ack(@) EXCEPT !.outcome = "resolved"])]
  /\ UNCHANGED <<consumeOptions, consumerTag, subOpen, mgrAll, pubv, appv>>

\* the handler throws or its promise rejects: lines 256-264
HandlerFails(m) ==
  /\ dl[m].st = "handling"
  /\ lastStep' = Step("HandlerFails")
  /\ dl' = [dl EXCEPT ![m] = CatchBlock([@ EXCEPT !.outcome = "rejected"])]
  /\ UNCHANGED <<consumeOptions, consumerTag, subOpen, mgrAll, pubv, appv>>

\* Message.fromJSON(content) in the shipped handlers (consumer.js line 59,
\* notification_service.js line 63): JSON.parse of a string that is not JSON
\* text throws; an object is turned into a Message
FromJSONThrows(content) == content.kind = "string"

\* NotificationService.handleMessage and MessageProcessor.handleMessage
\* (notification_service.js lines 60-81, consumer.js lines 56-79): the whole
\* body is in a try whose catch only logs, so the promise always resolves
HandleMessage(content) ==
  LET body == IF FromJSONThrows(content) THEN "threw" ELSE "returned"
  IN  IF body = "threw" THEN "resolved" ELSE "resolved"

\* the promise of a shipped handler settles for delivery m
ShippedHandlerSettles(m) ==
  IF HandleMessage(dl[m].harg) = "resolved"
    THEN HandlerResolves(m)
    ELSE HandlerFails(m)

\* the channel of the subscription closes: ack and reject throw from now on
SubChannelCloses ==
  /\ Registered /\ subOpen
  /\ subOpen' = FALSE
  /\ lastStep' = Step("SubChannelCloses")
  /\ UNCHANGED <<consumeOptions, consumerTag, dl, mgrAll, pubv, appv>>

(***************************************************************************)
(* Publisher.publish(), src/src/rabbitmq/publisher.js lines 47-79.         *)
(* The channel comes from the manager's createChannel(); here only its     *)
(* outcome matters, so the call either yields a channel or throws.         *)
(***************************************************************************)
\* config.exchange.name, config.routingKey, config.messageOptions
\* (src/src/config/rabbitmq.js lines 26, 42, 45-47)
exchange == "message_exchange"
defaultRoutingKey == "message.new"
defaultMessageOptions == [persistent |-> TRUE]

\* an argument left out by the caller
Undefined == "undefined"

\* the messages callers publish: an object and three strings
PubMessages ==
  { [kind |-> "object", v |-> "id=123"],
    [kind |-> "string", v |-> "hi"],
    [kind |-> "string", v |-> "plain text message"],
    [kind |-> "string", v |-> "\"hi\""] }
PubRoutingKeys == {Undefined, "message.urgent"}
PubOptionChoices ==
  { NoOptions,
    [persistent |-> FALSE],
    [expiration |-> "1000"],
    [persistent |-> FALSE, expiration |-> "1000"] }

\* JSON.stringify on the values of PubMessages
JSONStringify(val) ==
  CASE val = [kind |-> "object", v |-> "id=123"] -> "{\"id\":\"123\"}"
    [] val = [kind |-> "string", v |-> "hi"]     -> "\"hi\""
    [] val = [kind |-> "string", v |-> "plain text message"]
                                                  -> "\"plain text message\""
    [] val = [kind |-> "string", v |-> "\"hi\""] -> "\"\\\"hi\\\"\""
    [] OTHER                                      -> "null"

\* a publisher that stringifies whatever it is given
Serialize_AlwaysStringify(message) == JSONStringify(message)

\* line 55: objects become their JSON text, strings are sent as they are
Serialize(message) ==
  IF message.kind = "object" THEN JSONStringify(message) ELSE message.v

\* a merge in which the defaults win
MessageOptions_DefaultsWin(options) ==
  [k \in DOMAIN defaultMessageOptions \cup DOMAIN options |->
     IF k \in DOMAIN defaultMessageOptions THEN defaultMessageOptions[k]
     ELSE options[k]]

\* lines 58-61: { ...defaultMessageOptions, ...options }
MessageOptions(options) ==
  [k \in DOMAIN defaultMessageOptions \cup DOMAIN options |->
     IF k \in DOMAIN options THEN options[k] ELSE defaultMessageOptions[k]]

\* line 47: routingKey = this.defaultRoutingKey when the argument is left out
RoutingKeyArg(routingKey) ==
  IF routingKey = Undefined THEN defaultRoutingKey ELSE routingKey

NoWrite == [exchange |-> "", routingKey |-> "", content |-> "", options |-> NoOptions]

\* no publish() in progress
NoPublish ==
  [pc |-> "idle", n |-> 0, message |-> NoArg, routingKey |-> Undefined,
   options |-> NoOptions, ops |-> <<>>, written |-> NoWrite,
   wrote |-> {}, ret |-> {}, raised |-> "none", thrown |-> "none",
   received |-> NoArg]

\* a catch block that swallows the error
PubCatch_Swallows(error) == "none"

\* lines 75-78: the catch logs and rethrows the error it caught
PubCatch(error) == error

\* publish(message, routingKey, options) is called: lines 47-49
Publish(message, routingKey, options) ==
  /\ pub.pc \in {"idle", "done", "failed"} /\ pub.n < MaxPublishes
  /\ pub' = [NoPublish EXCEPT !.pc = "channel", !.n = pub.n + 1,
               !.message = message, !.routingKey = routingKey,
               !.options = options]
  /\ lastStep' = Step("Publish")
  /\ UNCHANGED <<cons, mgrAll, appv>>

\* createChannel() resolves and assertExchange is sent: lines 49-52
PubChannelReady ==
  /\ pub.pc = "channel"
  /\ pub' = [pub EXCEPT !.pc = "asserting", !.ops = Append(@, "assertExchange")]
  /\ lastStep' = Step("PubChannelReady")
  /\ UNCHANGED <<cons, mgrAll, appv>>

\* createChannel() or assertExchange rejects: lines 75-78 rethrow
PubFails ==
  /\ pub.pc \in {"channel", "asserting"}
  /\ \E error \in {IF pub.pc = "channel" THEN "ChannelError" ELSE "AssertError"} :
       pub' = [pub EXCEPT !.pc = "failed", !.raised = error,
                          !.thrown = PubCatch(error)]
  /\ lastStep' = Step("PubFails")
  /\ UNCHANGED <<cons, mgrAll, appv>>

\* assertExchange resolves and channel.publish returns result: lines 55-74
PubWrite(result) ==
  /\ pub.pc = "asserting"
  /\ pub' = [pub EXCEPT
       !.pc = "done",
       !.ops = Append(@, "publish"),
       !.written = [exchange |-> exchange,
                    routingKey |-> RoutingKeyArg(pub.routingKey),
                    content |-> Serialize(pub.message),
                    options |-> MessageOptions(pub.options)],
       !.wrote = {result},
       !.ret = {result}]
  /\ lastStep' = Step("PubWrite")
  /\ UNCHANGED <<cons, mgrAll, appv>>

\* assertExchange resolves and channel.publish throws: lines 64, 75-78
PubWriteThrows ==
  /\ pub.pc = "asserting"
  /\ pub' = [pub EXCEPT !.pc = "failed", !.ops = Append(@, "publish"),
                         !.raised = "WriteError", !.thrown = PubCatch("WriteError")]
  /\ lastStep' = Step("PubWriteThrows")
  /\ UNCHANGED <<cons, mgrAll, appv>>

\* the broker delivers the written message to a consumer, whose callback
\* decodes it (connection.js lines 237-249) and hands it to the handler
PubDelivered ==
  /\ pub.pc = "done" /\ pub.received = NoArg
  /\ pub' = [pub EXCEPT !.received = ParseContent(pub.written.content)]
  /\ lastStep' = Step("PubDelivered")
  /\ UNCHANGED <<cons, mgrAll, appv>>

(***************************************************************************)
(* Message, src/src/models/message.js.  A JavaScript value is a record      *)
(* [t, v] of its type and a text for its content; uuids and Date.now() are  *)
(* counters, so that a fresh id or a later time differs from an earlier one.*)
(***************************************************************************)
JS(t, v) == [t |-> t, v |-> v]
Undef == JS("undefined", "")
Null  == JS("null", "")

\* arguments passed to new Message(data, type, metadata)
DataChoices ==
  { Undef, Null, JS("number", "0"), JS("number", "NaN"), JS("string", ""),
    JS("object", "a=1"), JS("date", "2024-01-01T00:00:00.000Z") }
TypeChoices ==
  { Undef, Null, JS("number", "5"), JS("string", ""), JS("string", "   "),
    JS("string", "order") }
MetadataChoices == { Undef, JS("object", "source=test") }

NoEnvelope ==
  [id |-> 0, timestamp |-> 0, type |-> Undef, data |-> Undef,
   metadata |-> [given |-> Undef, createdAt |-> 0]]

\* no envelope built yet; uuid and now are the next uuidv4() and Date.now()
NoMessage ==
  [e |-> NoEnvelope, out |-> NoEnvelope, res |-> "none", last |-> "none",
   n |-> 0, uuid |-> 1, now |-> 1]

\* constructor, lines 19-28: type defaults to "default" when left out, the
\* metadata get a createdAt of their own
NewMessageOf(data, type, metadata, uuid, now) ==
  [id |-> uuid, timestamp |-> now,
   type |-> IF type = Undef THEN JS("string", "default") ELSE type,
   data |-> data,
   metadata |-> [given |-> IF metadata = Undef THEN Undef ELSE metadata.given,
                 createdAt |-> now]]

\* String.prototype.trim on the type texts of TypeChoices
Trim(text) == IF text \in {"", "   "} THEN "" ELSE text

\* a validate() that looks at the type first
Validate_TypeFirst(e) ==
  IF e.type.t # "string" \/ Trim(e.type.v) = ""
    THEN "Message type must be a non-empty string"
  ELSE IF e.data = Undef \/ e.data = Null THEN "Message data is required"
  ELSE "true"

\* validate(), lines 34-45: the error thrown, or "true"
Validate(e) ==
  IF e.data = Undef \/ e.data = Null THEN "Message data is required"
  ELSE IF e.type.t # "string" \/ Trim(e.type.v) = ""
    THEN "Message type must be a non-empty string"
  ELSE "true"

\* toJSON(), lines 51-59: a plain object with the five fields
ToJSON(e) ==
  [id |-> e.id, timestamp |-> e.timestamp, type |-> e.type, data |-> e.data,
   metadata |-> e.metadata]

\* what a property value is after JSON.stringify and JSON.parse: NaN becomes
\* null, a Date its ISO string, an undefined property is left out
JSONValue(val) ==
  CASE val = JS("number", "NaN") -> Null
    [] val.t = "date"             -> JS("string", val.v)
    [] OTHER                      -> val

\* JSON.stringify of a plain envelope object; body is what JSON.parse of the
\* text gives back
JSONText(o) ==
  [text |-> TRUE,
   body |-> [id |-> o.id, timestamp |-> o.timestamp, type |-> JSONValue(o.type),
             data |-> JSONValue(o.data), metadata |-> o.metadata]]
\* an object passed as it is
AsObject(o) == [text |-> FALSE, body |-> o]

\* a fromJSON() that always draws a new id
FromJSON_FreshId(raw, uuid, now) ==
  [NewMessageOf(raw.body.data, raw.body.type,
                [given |-> raw.body.metadata.given], uuid, now)
     EXCEPT !.timestamp = IF raw.body.timestamp # 0 THEN raw.body.timestamp ELSE now]

\* fromJSON(), lines 66-80: parse a string, build a Message from the parsed
\* data, type and metadata, keep the parsed id and timestamp when present
FromJSON(raw, uuid, now) ==
  [NewMessageOf(raw.body.data, raw.body.type,
                [given |-> raw.body.metadata.given], uuid, now)
     EXCEPT !.id = IF raw.body.id # 0 THEN raw.body.id ELSE uuid,
            !.timestamp = IF raw.body.timestamp # 0 THEN raw.body.timestamp ELSE now]

\* new Message(data, type, metadata)
NewMessage(data, type, metadata) ==
  /\ msg.n < MaxMessageOps
  /\ msg' = [msg EXCEPT
       !.e = NewMessageOf(data, type,
                          IF metadata = Undef THEN Undef ELSE [given |-> metadata],
                          msg.uuid, msg.now),
       !.out = NoEnvelope, !.res = "none", !.last = "new",
       !.n = @ + 1, !.uuid = @ + 1, !.now = @ + 1]
  /\ lastStep' = Step("NewMessage")
  /\ UNCHANGED <<cons, mgrAll, pubv, cli>>

\* e.validate()
MsgValidate ==
  /\ msg.e # NoEnvelope /\ msg.n < MaxMessageOps
  /\ msg' = [msg EXCEPT !.res = Validate(msg.e), !.last = "validate", !.n = @ + 1]
  /\ lastStep' = Step("MsgValidate")
  /\ UNCHANGED <<cons, mgrAll, pubv, cli>>

\* Message.fromJSON(e.toJSON())
MsgFromJSONObject ==
  /\ msg.e # NoEnvelope /\ msg.n < MaxMessageOps
  /\ msg' = [msg EXCEPT
       !.out = FromJSON(AsObject(ToJSON(msg.e)), msg.uuid, msg.now),
       !.last = "fromObject", !.n = @ + 1, !.uuid = @ + 1, !.now = @ + 1]
  /\ lastStep' = Step("MsgFromJSONObject")
  /\ UNCHANGED <<cons, mgrAll, pubv, cli>>

\* Message.fromJSON(JSON.stringify(e.toJSON()))
MsgFromJSONText ==
  /\ msg.e # NoEnvelope /\ msg.n < MaxMessageOps
  /\ msg' = [msg EXCEPT
       !.out = FromJSON(JSONText(ToJSON(msg.e)), msg.uuid, msg.now),
       !.last = "fromText", !.n = @ + 1, !.uuid = @ + 1, !.now = @ + 1]
  /\ lastStep' = Step("MsgFromJSONText")
  /\ UNCHANGED <<cons, mgrAll, pubv, cli>>


\* ---- Publisher.initialize() and the Consumer's initialize(), consume(),
\* ---- cancel() and close(), run one call at a time on the shared manager

\* last: the call completed last and whether it returned; subs[t]: the
\* subscription the broker registered under tag t
NoClient == [call |-> NoCall, last |-> [op |-> "none", ok |-> TRUE],
             subs |-> <<>>, initialized |-> {}, n |-> 0]

Clients == {"Publisher", "Consumer"}
ClientOps(who) ==
  IF who = "Publisher" THEN {"initialize"}
  ELSE {"initialize", "consume", "cancel", "close"}
\* assertExchange, assertQueue and bindQueue declare topology
Topology == {"assertExchange", "assertQueue", "bindQueue"}
BrokerStages == Topology \cup {"consume", "cancel"}

\* a cancel() that asks for a channel and cancels whatever the tag is
CancelGuard_Always == TRUE
\* `if (this.consumerTag)`, connection.js line 287
CancelGuard == consumerTag # 0

\* a createChannel() that opens a channel on every call
ReuseChannel_Never == FALSE
\* `if (this.channel) return this.channel`, connection.js lines 106-108
ReuseChannel == channel # 0

\* a consume() that keeps the tag of an earlier subscription
TagAfterConsume_KeepsFirst(t) == IF consumerTag # 0 THEN consumerTag ELSE t
\* `this.consumerTag = consumerTag`, connection.js line 269
TagAfterConsume(t) == t

\* a cancel() that forgets to clear the tag
TagAfterCancel_Keeps == consumerTag
\* `this.consumerTag = null`, connection.js line 291
TagAfterCancel == 0

\* a catch block that logs and returns
ClientCatch_Swallows(error) == "ok"
\* the catch blocks log and rethrow: publisher.js lines 34-37, connection.js
\* lines 204-207, 275-278, 293-296 and 306-309
ClientCatch(error) == error

\* the broker call made first once the channel is there
FirstBrokerCall(o) ==
  CASE o = "initialize" -> "assertExchange"
    [] o = "consume"    -> "consume"
    [] OTHER            -> "cancel"

\* what follows a broker call that succeeded
NextStage(who, o, stage) ==
  CASE stage = "assertExchange" /\ who = "Consumer" -> "assertQueue"
    [] stage = "assertQueue"                        -> "bindQueue"
    [] stage = "cancel" /\ o = "close"              -> "managerClose"
    [] OTHER                                        -> "done"

\* the call issues the request of a stage and awaits its reply
Issue(c, call, stage) ==
  [c EXCEPT
     !.call = [call EXCEPT !.stage = stage,
                 !.trace = Append(@, Did(stage, IF stage = "cancel"
                                                  THEN consumerTag ELSE 0))]]

\* the call returns or throws
Complete(c, call, res) ==
  [c EXCEPT
     !.call = NoCall,
     !.last = [op |-> call.op, ok |-> res = "ok"],
     !.initialized = IF call.op = "initialize" /\ res = "ok"
                       THEN @ \cup {call.who} ELSE @]

\* variables no client call touches
cliRest == <<consumeOptions, subOpen, dl, pubv, msg, clr>>

\* a client method is called and runs to its first await
ClientCall(who, o) ==
  /\ cli.call.op = "none" /\ cli.n < MaxClientCalls
  /\ o \in ClientOps(who)
  /\ lastStep' = IF o = "cancel" /\ ~CancelGuard
                    THEN ClientDone("ClientCall",
                           [NoCall EXCEPT !.who = who, !.op = o], "ok")
                    ELSE Step("ClientCall")
  /\ LET counted == [cli EXCEPT !.n = @ + 1]
         base == [NoCall EXCEPT !.who = who, !.op = o, !.tag0 = consumerTag,
                    !.again = who \in cli.initialized /\ channel # 0]
         asked == [base EXCEPT !.trace = <<Did("createChannel", 0)>>,
                     !.ch = channel, !.stage = "acquiring"]
     IN  cli' =
           IF o \in {"cancel", "close"} /\ ~CancelGuard
             THEN IF o = "cancel" THEN Complete(counted, base, "ok")
                  ELSE Issue(counted, base, "managerClose")
             ELSE IF ReuseChannel
                    THEN Issue(counted, asked, FirstBrokerCall(o))
                    ELSE [counted EXCEPT !.call = asked]
  /\ UNCHANGED <<mgrAll, consumerTag, cliRest>>

\* createChannel() resolves with a new channel, after connecting if there
\* was no connection: connection.js lines 105-132 and 25-72
ClientAcquired ==
  /\ cli.call.stage = "acquiring" /\ ~isConnecting
  /\ lastStep' = Step("ClientAcquired")
  /\ IF connection = 0
       THEN /\ Established
            /\ NoteSuccess
            /\ chans' = Append(chans, [conn |-> Len(conns) + 1, st |-> "open"])
       ELSE /\ ConnIsOpen(connection)
            /\ chans' = Append(chans, [conn |-> connection, st |-> "open"])
            /\ UNCHANGED <<connection, connectionRetries, isConnecting, conns, ghost>>
  /\ channel' = Len(chans) + 1
  /\ cli' = Issue(cli, [cli.call EXCEPT !.ch = Len(chans) + 1],
                  FirstBrokerCall(cli.call.op))
  /\ UNCHANGED <<tmr, events, brokerStable, budget, consumerTag, cliRest>>

\* createChannel() rejects: the attempt failed, or the connection refused
\* the channel (connection.js lines 65-71 and 125-131)
ClientAcquireFails ==
  /\ cli.call.stage = "acquiring" /\ ~isConnecting
  /\ lastStep' = ClientDone("ClientAcquireFails", cli.call,
                            ClientCatch("createChannel failed"))
  /\ IF connection = 0
       THEN /\ HandleConnectionError
            /\ NoteFailedAttempt
            /\ UNCHANGED <<isConnecting, tWaiting, tAttempting>>
       ELSE /\ channel' = 0
            /\ UNCHANGED <<connection, connectionRetries, isConnecting, tmr, ghost>>
  /\ cli' = Complete(cli, cli.call, ClientCatch("createChannel failed"))
  /\ UNCHANGED <<net, consumerTag, cliRest>>

\* the broker confirms the request the call is waiting for
ClientBrokerOk ==
  /\ cli.call.stage \in BrokerStages /\ ChanIsOpen(cli.call.ch)
  /\ lastStep' = IF NextStage(cli.call.who, cli.call.op, cli.call.stage) = "done"
                    THEN ClientDone("ClientBrokerOk", cli.call, "ok")
                    ELSE Step("ClientBrokerOk")
  /\ LET stage == cli.call.stage
         tag   == Len(cli.subs) + 1
         reg   == CASE stage = "consume" ->
                         [cli EXCEPT !.subs = Append(@,
                            [ch |-> cli.call.ch, active |-> TRUE,
                             initd |-> "Consumer" \in cli.initialized])]
                    [] /\ stage = "cancel" /\ consumerTag \in DOMAIN cli.subs
                       /\ cli.subs[consumerTag].ch = cli.call.ch ->
                         [cli EXCEPT !.subs[consumerTag].active = FALSE]
                    [] OTHER -> cli
         next  == NextStage(cli.call.who, cli.call.op, stage)
     IN  /\ consumerTag' = CASE stage = "consume" -> TagAfterConsume(tag)
                             [] stage = "cancel"  -> TagAfterCancel
                             [] OTHER             -> consumerTag
         /\ cli' = IF next = "done" THEN Complete(reg, cli.call, "ok")
                   ELSE Issue(reg, cli.call, next)
  /\ UNCHANGED <<mgrAll, cliRest>>

\* the request the call is waiting for fails
ClientBrokerFails ==
  /\ cli.call.stage \in BrokerStages
  /\ lastStep' = ClientDone("ClientBrokerFails", cli.call,
                            ClientCatch(cli.call.stage))
  /\ cli' = Complete(cli, cli.call, ClientCatch(cli.call.stage))
  /\ UNCHANGED <<mgrAll, consumerTag, cliRest>>

\* rabbitMQConnection.close() resolves: the channel and the connection are
\* closed, the 'close' handler has run, both references are null
\* (connection.js lines 137-160; close() catches its own errors)
ClientManagerClosed ==
  /\ cli.call.stage = "managerClose"
  /\ lastStep' = ClientDone("ClientManagerClosed", cli.call, "ok")
  /\ chans' = [i \in DOMAIN chans |->
                 IF i = channel THEN [chans[i] EXCEPT !.st = "shut"] ELSE chans[i]]
  /\ IF ConnIsOpen(connection)
       THEN /\ conns' = [conns EXCEPT ![connection] = "shut"]
            /\ HandleConnectionError
            /\ NoteEventFault
       ELSE /\ connection' = 0 /\ channel' = 0
            /\ UNCHANGED <<conns, connectionRetries, timers, ghost>>
  /\ cli' = Complete(cli, cli.call, "ok")
  /\ UNCHANGED <<isConnecting, tWaiting, tAttempting, events, brokerStable,
                 budget, consumerTag, cliRest>>

\* constructors (connection.js lines 12-18 and 173-182, publisher.js lines
\* 11-18), before any call or event
Start ==
  /\ connection = 0 /\ channel = 0
  /\ connectionRetries = 0 /\ isConnecting = FALSE
  /\ timers = 0 /\ tWaiting = 0 /\ tAttempting = 0
  /\ conns = <<>> /\ chans = <<>>
  /\ pc = [c \in Callers |-> "idle"]
  /\ op = [c \in Callers |-> "none"]
  /\ local = [c \in Callers |-> 0]
  /\ target = [c \in Callers |-> NoTarget]
  /\ calls = 0 /\ events = 0
  /\ brokerStable = FALSE
  /\ fails = 0 /\ sched = 0
  /\ consumeOptions = NoOptions /\ consumerTag = 0 /\ subOpen = FALSE
  /\ dl = [m \in Deliveries |-> NewDelivery]
  /\ pub = NoPublish
  /\ msg = NoMessage
  /\ cli = NoClient
  /\ lastStep = Step("Init")

Init ==
  Start /\ budget = [callers |-> NumCallers, calls |-> MaxCalls, events |-> MaxEvents]

LiveInit ==
  Start /\ budget = [callers |-> LiveCallers, calls |-> LiveCalls, events |-> LiveEvents]

Next ==
  \/ \E c \in Callers : CallConnect(c)
  \/ \E c \in Callers : CallCreateChannel(c)
  \/ \E c \in Callers : Poll(c)
  \/ \E c \in Callers : AttemptSucceed(c)
  \/ \E c \in Callers : AttemptFail(c)
  \/ \E c \in Callers : CreateChannelDone(c)
  \/ \E c \in Callers : CallClose(c)
  \/ \E c \in Callers : CloseChannelDone(c)
  \/ \E c \in Callers : CloseConnDone(c)
  \/ TimerFire
  \/ TimerPoll
  \/ TimerAttemptSucceed
  \/ TimerAttemptFail
  \/ \E k \in 1..Len(conns) : ConnError(k)
  \/ \E k \in 1..Len(conns) : ConnClose(k)
  \/ \E i \in 1..Len(chans) : ChanError(i)
  \/ \E i \in 1..Len(chans) : ChanClose(i)

Spec == Init /\ [][Next]_vars

\* the connection manager with a broker that may become reachable for good,
\* under fair scheduling of timers, polls and broker replies
LiveNext ==
  \/ Next
  \/ BrokerStabilizes

LiveSpec ==
  /\ LiveInit /\ [][LiveNext]_vars
  /\ WF_vars(TimerFire) /\ WF_vars(TimerPoll) /\ WF_vars(TimerAttemptSucceed)
  /\ \A c \in Callers : WF_vars(Poll(c)) /\ WF_vars(AttemptSucceed(c))

\* the delivery callback of one subscription
ConsumerNext ==
  \/ \E o \in OptionChoices : Consume(o)
  \/ \E m \in Deliveries, t \in Contents : Deliver(m, t)
  \/ \E m \in Deliveries : HandlerResolves(m)
  \/ \E m \in Deliveries : HandlerFails(m)
  \/ SubChannelCloses

ConsumerSpec == Init /\ [][ConsumerNext]_vars

\* the delivery callback with the handlers shipped in the repository
ShippedNext ==
  \/ \E o \in OptionChoices : Consume(o)
  \/ \E m \in Deliveries, t \in Contents : Deliver(m, t)
  \/ \E m \in Deliveries : ShippedHandlerSettles(m)
  \/ SubChannelCloses

ShippedSpec == Init /\ [][ShippedNext]_vars

PublisherNext ==
  \/ \E m \in PubMessages, k \in PubRoutingKeys, o \in PubOptionChoices :
       Publish(m, k, o)
  \/ PubChannelReady
  \/ PubFails
  \/ \E b \in BOOLEAN : PubWrite(b)
  \/ PubWriteThrows
  \/ PubDelivered

PublisherSpec == Init /\ [][PublisherNext]_vars

MessageNext ==
  \/ \E d \in DataChoices, t \in TypeChoices, m \in MetadataChoices :
       NewMessage(d, t, m)
  \/ MsgValidate
  \/ MsgFromJSONObject
  \/ MsgFromJSONText

MessageSpec == Init /\ [][MessageNext]_vars

\* the clients on a manager whose connection and channel may fail and whose
\* reconnect timers fire; a connection fault is a 'close' event (the 'error'
\* handler does the same) and the attempts made by timers succeed
ClientInit ==
  Start /\ budget = [callers |-> 0, calls |-> 0, events |-> ClientEvents]

ClientNext ==
  \/ \E who \in Clients, o \in {"initialize", "consume", "cancel", "close"} :
       ClientCall(who, o)
  \/ ClientAcquired
  \/ ClientAcquireFails
  \/ ClientBrokerOk
  \/ ClientBrokerFails
  \/ ClientManagerClosed
  \/ TimerFire
  \/ TimerPoll
  \/ TimerAttemptSucceed
  \/ \E k \in 1..Len(conns) : ConnClose(k)
  \/ \E i \in 1..Len(chans) : ChanError(i)
  \/ \E i \in 1..Len(chans) : ChanClose(i)

ClientSpec == ClientInit /\ [][ClientNext]_vars

(***************************************************************************)
(* Properties of the delivery callback (ConsumerSpec)                      *)
(***************************************************************************)
ManualAck == Registered /\ ~consumeOptions.noAck
AutoAck   == Registered /\ consumeOptions.noAck
Messages  == 1..MaxMsgs

\* C1: with noAck = false, a delivery whose handler resolved is acknowledged
\* exactly once and never rejected, whatever the channel does on the ack.
AckOnSuccess ==
  \A m \in Messages :
    (ManualAck /\ dl[m].outcome = "resolved") =>
      (dl[m].acks = 1 /\ dl[m].rejects = 0)

\* C2: with noAck = false, a delivery whose handler threw or rejected is
\* rejected exactly once, with requeue = false, and is never acknowledged.
RejectOnFailure ==
  \A m \in Messages :
    /\ (ManualAck /\ dl[m].outcome = "rejected") =>
         (dl[m].rejects = 1 /\ dl[m].requeue = {FALSE} /\ dl[m].acks = 0)
    /\ dl[m].outcome = "none" => (dl[m].acks = 0 /\ dl[m].rejects = 0)

RejectOnFailureWitness ==
  \E m \in Messages :
    /\ ManualAck /\ dl[m].outcome = "rejected" /\ dl[m].hcalls = 1
    /\ dl[m].rejects = 1 /\ dl[m].st \in {"done", "threw"}

\* C3: with noAck = true neither ack nor reject is issued for any delivery,
\* whether its handler succeeded or failed.
NoAckSuppressesBoth ==
  AutoAck => \A m \in Deliveries : dl[m].acks = 0 /\ dl[m].rejects = 0

NoAckSuppressesBothWitness ==
  /\ AutoAck
  /\ \E m \in Messages : dl[m].outcome = "resolved" /\ dl[m].st = "done"
  /\ \E m \in Messages : dl[m].outcome = "rejected" /\ dl[m].st = "done"

\* C4: a null delivery invokes no handler and issues neither ack nor reject.
NullDeliveryNoOp ==
  /\ dl[0].hcalls = 0 /\ dl[0].acks = 0 /\ dl[0].rejects = 0
  /\ dl[0].st = "none" /\ dl[0].outcome = "none"

NullDeliveryNoOpWitness ==
  ManualAck /\ dl[0].n > 0

\* C18 as stated: when the handler of a delivery fails, the delivery callback
\* still completes without throwing, also when the reject call fails.
HandlerErrorsContained ==
  \A m \in Messages : dl[m].outcome = "rejected" => dl[m].st # "threw"

\* C19 as stated: at most one handler invocation of the registration is in
\* flight at any time.
OneHandlerInFlight ==
  Cardinality({m \in Messages : dl[m].st = "handling"}) <= 1

(***************************************************************************)
(* Properties of the connection manager (Spec, LiveSpec)                   *)
(***************************************************************************)
Min(a, b) == IF a < b THEN a ELSE b
FaultSteps == {"ConnError", "ConnClose", "AttemptFail", "TimerAttemptFail"}
\* broker connection attempts in progress
InFlight == Cardinality({c \in Callers : pc[c] = "attempting"}) + tAttempting

\* C5 as stated: starting from retryCount = 0 with every attempt failing,
\* after exactly reconnectAttempts failed attempts no reconnect timer is pending.
CeilingAfterMaxFailures ==
  fails = reconnectAttempts => timers = 0

\* C5 amended: starting from retryCount = 0 with every attempt failing, each of
\* the first reconnectAttempts failed attempts schedules one reconnect timer and
\* increments retryCount, and every later failed attempt schedules none.
CeilingAfterMaxReconnects ==
  fails >= 0 =>
    /\ sched = Min(fails, reconnectAttempts)
    /\ connectionRetries = Min(fails, reconnectAttempts)

CeilingWitness ==
  /\ fails = reconnectAttempts + 1 /\ sched = reconnectAttempts
  /\ timers = 0 /\ tWaiting = 0 /\ InFlight = 0

\* C6: under fair scheduling, once the broker accepts every attempt, a pending
\* reconnect timer leads to a live connection with retryCount = 0.
AutomaticReconnection ==
  (brokerStable /\ timers > 0) ~> (connection # 0 /\ connectionRetries = 0)

AutomaticReconnectionWitness ==
  /\ brokerStable /\ lastStep.act = "TimerAttemptSucceed"
  /\ connection # 0 /\ connectionRetries = 0

\* C7: at most one broker connection attempt is in progress at any time.
SingleInFlightAttempt == InFlight <= 1

SingleInFlightAttemptWitness ==
  /\ InFlight = 1
  /\ \E c \in Callers : pc[c] = "waiting"
  /\ tWaiting > 0

\* C8: connect() never resolves with a null connection, and createChannel()
\* never operates on a null connection.
ConnectNeverYieldsNull ==
  /\ (lastStep.call = "connect" /\ lastStep.res = "ok") => lastStep.val # 0
  /\ lastStep.res # "TypeError"

\* C9: at most one open channel created by the manager exists at any time.
AtMostOneChannel == Cardinality(OpenChannels) <= 1

\* C10: right after a connection fault is handled, connection and channel
\* are both null.
FaultNullsBoth ==
  lastStep.act \in FaultSteps => (connection = 0 /\ channel = 0)

FaultNullsBothWitness ==
  /\ lastStep.act \in {"ConnError", "ConnClose"}
  /\ lastStep.conn # 0 /\ lastStep.chan # 0
  /\ connection = 0 /\ channel = 0

\* ---- retry reset, exhaustion, channel events, request path ----

SuccessSteps == {"AttemptSucceed", "TimerAttemptSucceed"}
ChanSteps == {"ChanError", "ChanClose"}

\* C11: whenever a connect attempt establishes a connection, retryCount is 0
\* afterwards, whatever it was before (and the connection is recorded).
RetryResetOnConnect ==
  lastStep.act \in SuccessSteps => (connectionRetries = 0 /\ connection # 0)

\* an attempt has just succeeded after earlier faults had raised retryCount
RetryResetOnConnectWitness ==
  /\ lastStep.act \in SuccessSteps
  /\ lastStep.retries > 0
  /\ connectionRetries = 0

\* C12 as stated: right after a fault was handled with retryCount at its
\* ceiling, no step starts a further connection attempt.
NoAttemptAfterExhaustion ==
  [][(lastStep.act \in FaultSteps /\ lastStep.retries = reconnectAttempts)
       => InFlight' <= InFlight]_vars

\* C12 as amended: while retryCount is at its ceiling no reconnect timer is
\* scheduled, and the manager becomes connected again only by a connect
\* attempt succeeding, which resets retryCount to 0.
ExhaustionStopsScheduling ==
  [][connectionRetries = reconnectAttempts
       => /\ timers' <= timers
          /\ (connection' # 0 =>
                (lastStep'.act \in SuccessSteps /\ connectionRetries' = 0))]_vars

\* a fault has just been handled with retryCount at its ceiling and nothing
\* is left pending
ExhaustionWitness ==
  /\ lastStep.act \in FaultSteps
  /\ lastStep.retries = reconnectAttempts
  /\ connectionRetries = reconnectAttempts
  /\ timers = 0 /\ InFlight = 0 /\ tWaiting = 0

\* C13 as stated: a channel 'error' or 'close' event nulls both the
\* connection and the channel, as a connection fault does.
ChannelFaultNullsBoth ==
  lastStep.act \in ChanSteps => (connection = 0 /\ channel = 0)

\* C13 as amended: a channel 'error' or 'close' event only nulls the channel;
\* the connection, retryCount and the pending timers are as before.
ChannelFaultNullsChannelOnly ==
  [][lastStep'.act \in ChanSteps
       => /\ channel' = 0
          /\ UNCHANGED <<connection, connectionRetries, timers>>]_vars

\* a channel event has just hit the channel of a connected manager
ChannelFaultWitness ==
  /\ lastStep.act \in ChanSteps
  /\ lastStep.chan # 0 /\ lastStep.conn # 0
  /\ channel = 0 /\ connection = lastStep.conn

\* C14 as stated: while the connection is null after a fault, no request-path
\* call starts a broker connection attempt.
RequestPathNeverAttempts ==
  [][(connection = 0 /\ connectionRetries > 0)
       => \A c \in Callers : pc'[c] = "attempting" => pc[c] = "attempting"]_vars

\* C14 as amended: a createChannel() call that finds connection and channel
\* null does not fail on the spot: it is suspended with exactly one attempt in
\* flight, its own unless one was already in progress.
RequestPathConnects ==
  (lastStep.act = "CallCreateChannel" /\ lastStep.conn = 0 /\ lastStep.chan = 0)
    => /\ lastStep.res = "none"
       /\ InFlight = 1
       /\ \E c \in Callers : pc[c] \in {"attempting", "waiting"}

\* createChannel() was just called after a fault and started its own attempt
RequestPathConnectsWitness ==
  /\ lastStep.act = "CallCreateChannel"
  /\ lastStep.conn = 0 /\ lastStep.chan = 0 /\ lastStep.retries > 0
  /\ tAttempting = 0
  /\ \E c \in Callers : pc[c] = "attempting"

\* ---- close() and the shared manager ----

\* C15: after close() returns, connection and channel are both null, whether
\* or not the channel close or the connection close threw.
CloseNullsBoth ==
  lastStep.call = "close" => (connection = 0 /\ channel = 0)

\* close() has just returned through its catch block while a connection was held
CloseNullsBothWitness ==
  /\ lastStep.call = "close" /\ lastStep.res = "caught"
  /\ lastStep.conn # 0
  /\ connection = 0 /\ channel = 0

\* C16 as stated: a close() that was called with a live channel and a live
\* connection has attempted to close both by the time it returns.
CloseAttemptsBoth ==
  (lastStep.call = "close" /\ lastStep.tch # 0 /\ lastStep.tconn # 0)
    => /\ chans[lastStep.tch].st \in {"closing", "shut"}
       /\ conns[lastStep.tconn] \in {"closing", "shut"}

\* C17 as stated: a close() by the Consumer leaves the connection and the
\* channel that the Publisher uses as they were when it was called.
IndependentManagers ==
  (lastStep.call = "close" /\ Component(lastStep.who) = "Consumer"
     /\ lastStep.tconn # 0)
    => (connection = lastStep.tconn /\ channel = lastStep.tch)

\* C17 as amended: Publisher and Consumer use the same manager, so after a
\* close() by the Consumer the connection and channel the Publisher would use
\* are null.
SharedManagerClosed ==
  (lastStep.call = "close" /\ Component(lastStep.who) = "Consumer")
    => (connection = 0 /\ channel = 0)

\* the Consumer has just closed a manager that held a live channel and
\* connection, which the Publisher had been using too
SharedManagerWitness ==
  /\ lastStep.call = "close" /\ Component(lastStep.who) = "Consumer"
  /\ lastStep.tconn # 0 /\ lastStep.tch # 0
  /\ connection = 0 /\ channel = 0

\* ---- publish() (PublisherSpec) ----

\* C20: a publish() that succeeded performed one exchange assertion and then
\* exactly one channel write, carrying the serialized message (an object as
\* its JSON text, a string as it is), the given routing key or the default
\* one, and the default options overridden key by key by the caller's
\* (persistent = true unless overridden); it returned the write's boolean.
PublishWritesOnce ==
  pub.pc = "done" =>
    /\ pub.ops = <<"assertExchange", "publish">>
    /\ pub.written.exchange = "message_exchange"
    /\ pub.written.routingKey =
         (IF pub.routingKey = Undefined THEN "message.new" ELSE pub.routingKey)
    /\ pub.message = [kind |-> "object", v |-> "id=123"]
         => pub.written.content = "{\"id\":\"123\"}"
    /\ pub.message.kind = "string" => pub.written.content = pub.message.v
    /\ DOMAIN pub.written.options = {"persistent"} \cup DOMAIN pub.options
    /\ \A k \in DOMAIN pub.options : pub.written.options[k] = pub.options[k]
    /\ "persistent" \notin DOMAIN pub.options => pub.written.options.persistent
    /\ pub.wrote # {} /\ pub.ret = pub.wrote

\* a string was published without a routing key and with persistent
\* overridden, and the write reported a full buffer
PublishWritesOnceWitness ==
  /\ pub.pc = "done"
  /\ pub.message.kind = "string" /\ pub.routingKey = Undefined
  /\ "persistent" \in DOMAIN pub.options
  /\ pub.written.routingKey = "message.new"
  /\ pub.ret = {FALSE}

\* C21: a publish() whose channel acquisition, exchange assertion or channel
\* write threw fails with that very error, and when the acquisition or the
\* assertion failed no write was attempted for that call.
PublishFailurePropagates ==
  /\ pub.pc = "failed" <=> pub.raised # "none"
  /\ pub.thrown = pub.raised
  /\ pub.raised \in {"ChannelError", "AssertError"} =>
       (pub.written = NoWrite /\ \A i \in 1..Len(pub.ops) : pub.ops[i] # "publish")
  /\ pub.raised = "ChannelError" => pub.ops = <<>>

\* publish() has just failed on the exchange assertion
PublishFailurePropagatesWitness ==
  /\ pub.pc = "failed" /\ pub.raised = "AssertError" /\ pub.thrown = "AssertError"
  /\ pub.ops = <<"assertExchange">>

\* C28 as stated: the handler of a consumer receives the published message
\* back: the same object, or the identical string.
PublishConsumeRoundTrip ==
  pub.received # NoArg => pub.received = pub.message

\* ---- Message (MessageSpec) ----

ValidEnvelope(e) ==
  /\ e # NoEnvelope
  /\ e.data.t \notin {"undefined", "null"}
  /\ e.type.t = "string" /\ e.type.v \notin {"", "   "}
\* values that JSON text represents as they are
JSONFaithful(val) ==
  val.t \in {"string", "object"} \/ (val.t = "number" /\ val.v # "NaN")

\* C29 as stated: for a valid envelope e, fromJSON of e.toJSON() and fromJSON
\* of its JSON text both have the id, timestamp, type and data of e.
EnvelopeRoundTrip ==
  (msg.last \in {"fromObject", "fromText"} /\ ValidEnvelope(msg.e)) =>
    /\ msg.out.id = msg.e.id /\ msg.out.timestamp = msg.e.timestamp
    /\ msg.out.type = msg.e.type /\ msg.out.data = msg.e.data

\* C29 as amended: id, timestamp and type are preserved on both paths; data
\* is preserved by the object path always and by the JSON text path when JSON
\* represents the data as they are.
EnvelopeRoundTripJSONData ==
  (msg.last \in {"fromObject", "fromText"} /\ ValidEnvelope(msg.e)) =>
    /\ msg.out.id = msg.e.id /\ msg.out.timestamp = msg.e.timestamp
    /\ msg.out.type = msg.e.type
    /\ (msg.last = "fromObject" \/ JSONFaithful(msg.e.data))
         => msg.out.data = msg.e.data

\* a valid envelope with object data came back from its JSON text, in a
\* Message built later than the original
EnvelopeRoundTripWitness ==
  /\ msg.last = "fromText" /\ ValidEnvelope(msg.e)
  /\ msg.e.data = JS("object", "a=1")
  /\ msg.out.id = msg.e.id /\ msg.out.data = msg.e.data
  /\ msg.out.metadata.createdAt > msg.e.metadata.createdAt

\* C30: validate() fails with the data-required error exactly when data is
\* null or undefined, otherwise with the type error exactly when type is not
\* a string or is empty or whitespace, otherwise returns true; it leaves the
\* envelope as it was.
ValidateContract ==
  [][(msg'.last = "validate" /\ msg'.n # msg.n) =>
       /\ msg'.e = msg.e
       /\ msg'.res =
            (IF msg.e.data.t \in {"undefined", "null"}
               THEN "Message data is required"
             ELSE IF msg.e.type.t # "string" \/ msg.e.type.v \in {"", "   "}
               THEN "Message type must be a non-empty string"
             ELSE "true")]_vars

\* validate() has just rejected a whitespace-only type on an envelope with data
ValidateContractWitness ==
  /\ msg.last = "validate"
  /\ msg.e.data = JS("number", "0") /\ msg.e.type = JS("string", "   ")
  /\ msg.res = "Message type must be a non-empty string"

\* the client call the last step completed, if it completed one
Completed(o) == lastStep.call = "client" /\ lastStep.cl.op = o

\* C22: a cancel() that began with a tag held and returned has asked for the
\* channel, issued exactly one broker cancel, for that tag, and left
\* consumerTag null; one that began with no tag held has asked for no channel
\* and made no broker call; one that threw (the acquisition or the broker
\* cancel failed) threw that error and left the tag held
CancelContract ==
  Completed("cancel") =>
    LET c == lastStep.cl
    IN  /\ c.tag0 = 0 =>
             /\ c.trace = <<>> /\ lastStep.res = "ok" /\ consumerTag = 0
        /\ (c.tag0 # 0 /\ lastStep.res = "ok") =>
             /\ c.trace = <<Did("createChannel", 0), Did("cancel", c.tag0)>>
             /\ consumerTag = 0
        /\ lastStep.res # "ok" =>
             /\ c.tag0 # 0 /\ consumerTag = c.tag0
             /\ \/ lastStep.res = "createChannel failed"
                     /\ c.trace = <<Did("createChannel", 0)>>
                \/ lastStep.res = "cancel"
                     /\ c.trace = <<Did("createChannel", 0), Did("cancel", c.tag0)>>

\* a cancel() whose broker cancel was refused has thrown with the tag held
CancelContractWitness ==
  /\ Completed("cancel") /\ lastStep.res = "cancel"
  /\ consumerTag # 0 /\ cli.subs[consumerTag].active

\* C23: every Consumer.close() that completes, returning or throwing, has
\* called close() on the connection manager
CloseAlwaysClosesManager ==
  Completed("close") =>
    \E i \in DOMAIN lastStep.cl.trace : lastStep.cl.trace[i].op = "managerClose"


\* C24 as stated: a subscription is registered only on a Consumer whose
\* initialize() has completed
ConsumeOnlyWhenInitialized ==
  \A t \in DOMAIN cli.subs : cli.subs[t].initd

\* C24: consumerTag is the only lifecycle state a Consumer has: a consume()
\* that returned has registered a subscription and holds its tag, whether or
\* not initialize() had completed; a cancel() or close() that returned has
\* left the tag null; initialize() and every call that threw leave the tag
\* as it was
TagFollowsCalls ==
  /\ consumerTag \in {0} \cup DOMAIN cli.subs
  /\ (Completed("consume") /\ lastStep.res = "ok") =>
       /\ consumerTag = Len(cli.subs) /\ consumerTag # 0
       /\ cli.subs[consumerTag].active
  /\ ((Completed("cancel") \/ Completed("close")) /\ lastStep.res = "ok") =>
       consumerTag = 0
  /\ (Completed("initialize") \/ (lastStep.call = "client" /\ lastStep.res # "ok")) =>
       consumerTag = lastStep.cl.tag0

\* consume() has registered a subscription on a Consumer never initialized
TagFollowsCallsWitness ==
  /\ Completed("consume") /\ lastStep.res = "ok"
  /\ "Consumer" \notin cli.initialized
  /\ consumerTag # 0 /\ ~cli.subs[consumerTag].initd

\* C25: every consume() that registers adds a subscription of its own, leaves
\* the earlier ones as they are and makes consumerTag the new tag; a
\* subscription is cancelled only while consumerTag holds its tag, so one
\* whose tag was overwritten by a second consume() is never cancelled by
\* the Consumer
OverwrittenTagNeverCancelled ==
  [][ /\ \A t \in DOMAIN cli.subs :
           /\ cli'.subs[t].ch = cli.subs[t].ch
           /\ (cli.subs[t].active /\ t # consumerTag) => cli'.subs[t].active
           /\ (cli.subs[t].active /\ ~cli'.subs[t].active) => consumerTag' = 0
      /\ Len(cli'.subs) >= Len(cli.subs)
      /\ Len(cli'.subs) > Len(cli.subs) =>
           /\ Len(cli'.subs) = Len(cli.subs) + 1
           /\ consumerTag' = Len(cli'.subs)
           /\ cli'.subs[consumerTag'].active ]_vars

\* after two consume() calls and a cancel(), the first subscription is still
\* registered on an open channel and no tag is held
OverwrittenTagWitness ==
  /\ Completed("cancel") /\ lastStep.res = "ok"
  /\ Len(cli.subs) = 2 /\ consumerTag = 0
  /\ cli.subs[1].active /\ ChanIsOpen(cli.subs[1].ch)
  /\ ~cli.subs[2].active

\* an initialize() called on a component already initialized, with the
\* channel still held
InitializeAgain(c) == c.op = "initialize" /\ c.again

\* C26: no step of an initialize() called again on an initialized Publisher
\* or Consumer changes the manager's connection, channel or retry count,
\* opens a connection or a channel, or changes the consumer tag; all such a
\* call asks of the broker is the declarations again
SecondInitializeIdempotent ==
  [][ (cli' # cli /\ (InitializeAgain(cli.call) \/ InitializeAgain(cli'.call))) =>
        /\ UNCHANGED <<connection, channel, connectionRetries, consumerTag,
                       conns, chans>>
        /\ \A i \in DOMAIN cli'.call.trace :
             cli'.call.trace[i].op \in Topology \cup {"createChannel"} ]_vars

\* a second Consumer.initialize() has returned, having declared exchange,
\* queue and binding again on the one channel of the one connection
SecondInitializeWitness ==
  /\ Completed("initialize") /\ lastStep.res = "ok"
  /\ lastStep.cl.who = "Consumer" /\ lastStep.cl.again
  /\ Len(lastStep.cl.trace) = 4
  /\ Len(conns) = 1 /\ Len(chans) = 1
  /\ connection = 1 /\ channel = 1 /\ connectionRetries = 0

\* the requests of initialize() in source order
InitializeOrder(who) ==
  IF who = "Publisher"
    THEN <<Did("createChannel", 0), Did("assertExchange", 0)>>
    ELSE <<Did("createChannel", 0), Did("assertExchange", 0),
           Did("assertQueue", 0), Did("bindQueue", 0)>>

\* the error thrown when the last request made fails
FailureOf(trace) ==
  IF Len(trace) = 1 THEN "createChannel failed" ELSE trace[Len(trace)].op

\* C27: an initialize() that returned made all its requests in source order;
\* one that threw made them in that order up to the one that failed, threw
\* that request's error and made no later request; and declarations are only
\* made by an initialize() call that began with a call by the application:
\* no timer step, reconnect included, starts a call or declares anything
InitializeNotRetried ==
  [][ /\ (Completed("initialize"))' =>
           LET c == lastStep'.cl
               order == InitializeOrder(c.who)
           IN  /\ Len(c.trace) \in 1..Len(order)
               /\ c.trace = SubSeq(order, 1, Len(c.trace))
               /\ lastStep'.res = "ok" => c.trace = order
               /\ lastStep'.res # "ok" => lastStep'.res = FailureOf(c.trace)
      /\ (cli.call.op = "none" /\ cli'.call.op # "none") =>
           lastStep'.act = "ClientCall"
      /\ (\E i \in DOMAIN cli'.call.trace : cli'.call.trace[i].op \in Topology) =>
           cli'.call.op = "initialize"
      /\ lastStep'.act \in {"TimerFire", "TimerPoll", "TimerAttemptSucceed"} =>
           cli' = cli ]_vars

\* the one call made, an initialize(), failed; a reconnect timer has since
\* connected, and nothing has been initialized
InitializeNotRetriedWitness ==
  /\ lastStep.act = "TimerAttemptSucceed" /\ connection # 0
  /\ cli.n = 1 /\ cli.last = [op |-> "initialize", ok |-> FALSE]
  /\ cli.call = NoCall /\ cli.initialized = {}

\* C31: in every reachable state 0 <= retryCount <= reconnectAttempts,
\* whatever faults, failed and successful attempts, timer firings and close()
\* calls have happened
RetryCountBounded ==
  /\ connectionRetries >= 0
  /\ connectionRetries <= reconnectAttempts

\* a 'close' event has just been handled with retryCount already at its
\* ceiling, and retryCount is still there
RetryCountBoundedWitness ==
  /\ lastStep.act = "ConnClose"
  /\ lastStep.retries = reconnectAttempts
  /\ connectionRetries = reconnectAttempts

\* C32: for every non-null delivery the handler is invoked exactly once, with
\* the decoded content and the delivery itself, and no ack or reject for the
\* delivery is issued before the handler has completed
HandlerOnceThenSettle ==
  \A m \in Messages :
    /\ dl[m].n >= 1 =>
         /\ dl[m].hcalls = 1
         /\ dl[m].harg = ParseContent(dl[m].content) /\ dl[m].hmsg = m
    /\ dl[m].n = 0 => dl[m].hcalls = 0
    /\ (dl[m].st = "handling" \/ dl[m].outcome = "none") =>
         (dl[m].acks = 0 /\ dl[m].rejects = 0)

\* one delivery was handled and then acknowledged while the handler of
\* another is still running
HandlerOnceThenSettleWitness ==
  /\ ManualAck
  /\ \E m \in Messages :
       /\ dl[m].st = "done" /\ dl[m].outcome = "resolved"
       /\ dl[m].hcalls = 1 /\ dl[m].acks = 1 /\ dl[m].harg.kind = "object"
  /\ \E m \in Messages : dl[m].st = "handling" /\ dl[m].hcalls = 1

\* C33 as stated: the step that completes a close() schedules no reconnect
\* timer and does not increment retryCount, and after a close() has
\* completed no timer-made attempt connects the manager again
QuietAfterClose ==
  [][ /\ lastStep'.call = "close" =>
           (timers' <= timers /\ connectionRetries' = connectionRetries)
      /\ (lastStep.call = "close" /\ lastStep'.act = "TimerFire") =>
           InFlight' <= InFlight ]_vars

\* C34 as stated: at most one reconnect timer is pending at any time, and a
\* fault raising both 'error' and 'close' on one connection increments
\* retryCount once
OneTimerPerFault ==
  /\ timers <= 1
  /\ (lastStep.act = "ConnClose" /\ lastStep.conn = 0) =>
       connectionRetries = lastStep.retries

\* C35 as stated: an 'error' or 'close' event of a connection or channel
\* other than the one the manager holds leaves the connection and channel
\* the manager holds in place and schedules no reconnect
StaleEventsIgnored ==
  [][ /\ \A k \in DOMAIN conns :
           ( /\ conns'[k] # conns[k] /\ conns'[k] \in {"errored", "closed"}
             /\ connection # 0 /\ k # connection ) =>
             /\ connection' = connection /\ channel' = channel
             /\ timers' = timers /\ connectionRetries' = connectionRetries
      /\ \A i \in DOMAIN chans :
           ( /\ chans'[i].st # chans[i].st /\ chans'[i].st \in {"errored", "closed"}
             /\ channel # 0 /\ i # channel ) =>
             channel' = channel ]_vars

\* C36 as stated: whenever the manager holds a channel it holds a connection,
\* and the channel was created on that connection
ChannelOnConnection ==
  channel # 0 => (connection # 0 /\ chans[channel].conn = connection)

\* C37 as stated: whenever consumerTag is non-null, the subscription with
\* that tag is registered, not cancelled, on the channel the manager holds,
\* and that channel is open
TagMeansLiveSubscription ==
  consumerTag # 0 =>
    /\ channel # 0 /\ ChanIsOpen(channel)
    /\ cli.subs[consumerTag].ch = channel
    /\ cli.subs[consumerTag].active

\* C38 as stated: the broker cancel of cancel() / close() is issued on the
\* channel the subscription was registered on, and no step of a cancel() or
\* close() call opens a connection or a channel
CancelOnRegisteringChannel ==
  [][ (cli' # cli /\ cli.call.op \in {"cancel", "close"}) =>
        /\ Len(conns') = Len(conns) /\ Len(chans') = Len(chans)
        /\ (cli'.call.stage = "cancel" /\ cli.call.stage # "cancel") =>
             cli'.call.ch = cli.subs[consumerTag].ch ]_vars

\* C39 as stated: with the shipped handlers and noAck = false, every
\* delivery whose callback has finished was acknowledged and not rejected,
\* also when processing the message failed
ShippedHandlersAlwaysAck ==
  \A m \in Messages :
    (ManualAck /\ dl[m].st \in {"done", "threw"}) =>
      (dl[m].acks = 1 /\ dl[m].rejects = 0)

\* an attempt holds the connecting flag, or a connect() call, made by a
\* caller or by a timer, is in the wait branch
ConnectBusy ==
  \/ isConnecting
  \/ tWaiting > 0
  \/ \E c \in Callers : pc[c] = "waiting"

\* C40: under fair scheduling of the polls and of the broker's replies,
\* whenever the connecting flag is set or a connect() call is waiting on an
\* attempt in flight, a state follows in which the flag is false and no
\* call is waiting: every waiting caller has resumed
WaitersResume == ConnectBusy ~> ~ConnectBusy

\* a caller that waited on the attempt of a reconnect timer has resumed
WaitersResumeWitness ==
  /\ lastStep.act = "Poll" /\ lastStep.call \in {"connect", "createChannel"}
  /\ ~isConnecting /\ \A c \in Callers : pc[c] # "waiting"

TypeOK ==
  /\ connection \in 0..Len(conns)
  /\ channel \in 0..Len(chans)
  /\ connectionRetries \in 0..reconnectAttempts
  /\ isConnecting \in BOOLEAN
  /\ \A c \in Callers : target[c].ch \in 0..Len(chans) /\ target[c].conn \in 0..Len(conns)
  /\ pub.pc \in {"idle", "channel", "asserting", "done", "failed"}
  /\ pub.n \in 0..MaxPublishes
  /\ msg.n \in 0..MaxMessageOps
  /\ cli.n \in 0..MaxClientCalls
  /\ cli.call.op \in {"none", "initialize", "consume", "cancel", "close"}
  /\ consumerTag \in {0, 1} \cup DOMAIN cli.subs
====
